---- MODULE Spec2Model ----
(***************************************************************************)
(* Model of src/core/device_local_agent.c (Device.LocalAgent): the         *)
(* cross-reboot state tracker (PopulateRebootInfo), the deferred exit      *)
(* coordinator (DEVICE_LOCAL_AGENT_ScheduleReboot / GetExitAction) and     *)
(* the start-up of the component (DEVICE_LOCAL_AGENT_Init / _Start).       *)
(*                                                                         *)
(* The persisted store (the USP database behind the DATA_MODEL and the    *)
(* DM_ACCESS calls) survives a restart of the process; file-scope statics  *)
(* do not.  Every store call of a handler may fail: a handler is invoked   *)
(* with a fault map that gives, for each of its store calls, the code the  *)
(* call returns when it is reached.                                        *)
(***************************************************************************)
EXTENDS Integers, Sequences, FiniteSets, TLC

\* ------------------------------------------------------------------------
\* Bounds of the model
MaxInstance == 1        \* request instance numbers are INVALID, 1 .. MaxInstance
MaxFaults == 2          \* at most this many store calls of one handler invocation fail

\* ------------------------------------------------------------------------
\* Program constants
USP_ERR_OK == "USP_ERR_OK"
INVALID == -1
local_reboot_cause_str == "LocalReboot"
NULL == "<NULL>"
USP_ERR_INTERNAL_ERROR == "USP_ERR_INTERNAL_ERROR"
USP_ERR_INVALID_VALUE == "USP_ERR_INVALID_VALUE"
\* USP_ASSERT has failed: the process is terminated, the handler does not return
USP_ASSERT_FAILED == "USP_ASSERT_FAILED"
VENDOR_OUI == "012345"
MAC_ADDR_LEN == 6

kExitAction_Exit == "kExitAction_Exit"
kExitAction_Reboot == "kExitAction_Reboot"
kExitAction_FactoryReset == "kExitAction_FactoryReset"
ExitActions == {kExitAction_Exit, kExitAction_Reboot, kExitAction_FactoryReset}

\* ------------------------------------------------------------------------
\* Inputs of the operations
RebootCauses == {"LocalReboot", "RemoteReboot", "RemoteFactoryReset"}
CommandKeys == {"", "key123"}
Instances == {INVALID} \cup (1 .. MaxInstance)
\* What a caller of ScheduleReboot passes as <<cause, command key, request
\* instance>>: a local restart without a command, or a remote request
Payloads ==
    { <<"LocalReboot", "", INVALID>> } \cup
    { <<"RemoteReboot", "key123", i>> : i \in 1 .. MaxInstance }
SoftwareVersions == {"", "1.0", "1.1"}

\* Values written to Internal.DualStackPreference
DualStackCandidates == {"IPv4", "IPv6", "ipv4", "", "Both"}

\* What a vendor hook does when it is called: not registered, failure, or a
\* value (which a hook may leave empty)
NoCallback == [ registered |-> FALSE, ret |-> USP_ERR_OK, value |-> "" ]
SerialNumberCallbacks ==
    { NoCallback,
      [ registered |-> TRUE, ret |-> "USP_ERR:vendor", value |-> "" ],
      [ registered |-> TRUE, ret |-> USP_ERR_OK, value |-> "VSN-7" ],
      [ registered |-> TRUE, ret |-> USP_ERR_OK, value |-> "" ] }
EndpointIdCallbacks ==
    { NoCallback,
      [ registered |-> TRUE, ret |-> "USP_ERR:vendor", value |-> "" ],
      [ registered |-> TRUE, ret |-> USP_ERR_OK, value |-> "proto::vendor-ep" ],
      [ registered |-> TRUE, ret |-> USP_ERR_OK, value |-> "" ] }

\* What nu_macaddr_wan_macaddr does: failure, or the six octets of the WAN MAC
MacAddresses == { <<170, 187, 204, 0, 17, 34>>, <<0, 26, 43, 60, 77, 94>> }
WanMacResults ==
    { [ ret |-> "USP_ERR:nu_macaddr_wan_macaddr", addr |-> <<0, 0, 0, 0, 0, 0>> ] } \cup
    { [ ret |-> USP_ERR_OK, addr |-> a ] : a \in MacAddresses }

\* The surroundings of a process: environment variables (NULL if not set),
\* vendor hooks and the WAN interface
Platforms ==
    [ board_oui : {NULL, "", "F0E1D2"},
      board_serial : {NULL, "", "SN42"},
      serial_cb : SerialNumberCallbacks,
      endpoint_cb : EndpointIdCallbacks,
      mac : WanMacResults ]

DefaultPlatform ==
    [ board_oui |-> NULL, board_serial |-> NULL, serial_cb |-> NoCallback,
      endpoint_cb |-> NoCallback,
      mac |-> [ ret |-> USP_ERR_OK, addr |-> <<170, 187, 204, 0, 17, 34>> ] ]

\* Values of ManufacturerOUI, SerialNumber and EndpointID held in the store
\* (NULL if the store has no value for the parameter)
IdStores ==
    [ oui : {NULL, "A1B2C3"},
      serial_number : {NULL, "PSN-9"},
      endpoint_id : {NULL, "os::A1B2C3-pinned"} ]

NoIdStore == [ oui |-> NULL, serial_number |-> NULL, endpoint_id |-> NULL ]

\* Store calls of PopulateRebootInfo, in program order, then the call of Start
PopulateCalls ==
    {"get_cause", "set_cause", "get_key", "set_key", "get_inst", "set_inst",
     "get_last", "get_cur", "set_last"}
StartCalls == PopulateCalls \cup {"get_dual"}
\* Store calls of DEVICE_LOCAL_AGENT_ScheduleReboot
ScheduleCalls == {"set_cause", "set_key", "set_inst"}

\* The error code a store call returns when it fails: one per call, so that
\* the code a handler returns tells which call it came from
StoreErr(c) == "USP_ERR:" \o c

\* Fault maps over a set of store calls: at most MaxFaults of them fail
FaultMaps(C) ==
    { [c \in C |-> IF c \in S THEN StoreErr(c) ELSE USP_ERR_OK]
      : S \in { T \in SUBSET C : Cardinality(T) <= MaxFaults } }
StartFaults == FaultMaps(StartCalls)
ScheduleFaults == FaultMaps(ScheduleCalls)
\* Data model calls of DEVICE_LOCAL_AGENT_SetDefaults, and the write of a set
\* of Internal.DualStackPreference
SetDefaultsCalls == {"reg_oui", "get_oui", "reg_serial", "get_serial", "reg_endpoint", "get_endpoint"}
SetDefaultsFaults == FaultMaps(SetDefaultsCalls)
DualStackFaults == FaultMaps({"set_dual"})

\* ------------------------------------------------------------------------
\* Textual form of integers in the database (DM_INT parameters)
DigitChars == <<"0", "1", "2", "3", "4", "5", "6", "7", "8", "9">>

RECURSIVE NatToText(_)
NatToText(n) ==
    IF n < 10 THEN DigitChars[n + 1]
    ELSE NatToText(n \div 10) \o DigitChars[(n % 10) + 1]

IntToText(n) == IF n < 0 THEN "-" \o NatToText(0 - n) ELSE NatToText(n)

TextDomain == (0 - 9) .. (MaxInstance + 9)
TextToInt(s) == CHOOSE n \in TextDomain : IntToText(n) = s

\* ------------------------------------------------------------------------
\* The persisted store: one string per path; a failing set leaves it as it was
DbDefaults ==
    [ cause |-> local_reboot_cause_str,
      command_key |-> "",
      request_instance |-> "-1",
      last_software_version |-> "",
      dual_stack_preference |-> "IPv4" ]

DATA_MODEL_SetParameterValue(d, path, value, e) ==
    IF e = USP_ERR_OK THEN [d EXCEPT ![path] = value] ELSE d

DM_ACCESS_SetInteger(d, path, value, e) ==
    DATA_MODEL_SetParameterValue(d, path, IntToText(value), e)

\* ------------------------------------------------------------------------
\* PopulateRebootInfo.  The function body is threaded through a record
\*   db: the store, info: reboot_info, err: the local 'err',
\*   returned/ret: whether the function has returned, and with what,
\*   fail: the code of the first store call that failed (USP_ERR_OK if none)
Return(s, e) == [s EXCEPT !.returned = TRUE, !.ret = e]

Failed(s, e) == IF e # USP_ERR_OK /\ s.fail = USP_ERR_OK THEN [s EXCEPT !.fail = e] ELSE s

\* lines 795-815: the cause of the last reboot
PopulateCause(s, f) ==
    IF s.returned THEN s
    ELSE LET s1 == Failed([s EXCEPT !.err = f["get_cause"]], f["get_cause"])
         IN  IF s1.err # USP_ERR_OK THEN Return(s1, s1.err)
             ELSE LET last_value == s1.db.cause
                      s2 == [s1 EXCEPT !.info.cause = last_value]
                  IN  IF last_value # local_reboot_cause_str
                      THEN LET s3 == Failed([s2 EXCEPT
                                        !.db = DATA_MODEL_SetParameterValue(s2.db, "cause",
                                                   local_reboot_cause_str, f["set_cause"]),
                                        !.err = f["set_cause"]], f["set_cause"])
                           IN  IF s3.err # USP_ERR_OK THEN Return(s3, s3.err) ELSE s3
                      ELSE s2

\* lines 817-837: the command key of the last reboot.  The result of the set
\* is not assigned to 'err', which still holds the result of the get.
PopulateCommandKey(s, f) ==
    IF s.returned THEN s
    ELSE LET s1 == Failed([s EXCEPT !.err = f["get_key"]], f["get_key"])
         IN  IF s1.err # USP_ERR_OK THEN Return(s1, s1.err)
             ELSE LET last_value == s1.db.command_key
                      s2 == [s1 EXCEPT !.info.command_key = last_value]
                  IN  IF last_value # ""
                      THEN LET s3 == Failed([s2 EXCEPT
                                        !.db = DATA_MODEL_SetParameterValue(s2.db, "command_key",
                                                   "", f["set_key"])], f["set_key"])
                           IN  IF s3.err # USP_ERR_OK THEN Return(s3, s3.err) ELSE s3
                      ELSE s2

\* lines 839-856: the request instance of the last reboot.  The result of the
\* set is not assigned to 'err' either.  A failing DM_ACCESS_GetInteger is
\* taken to leave reboot_info.request_instance as it was.
PopulateRequestInstance(s, f) ==
    IF s.returned THEN s
    ELSE LET s1 == Failed([s EXCEPT !.err = f["get_inst"]], f["get_inst"])
         IN  IF s1.err # USP_ERR_OK THEN Return(s1, s1.err)
             ELSE LET s2 == [s1 EXCEPT !.info.request_instance = TextToInt(s1.db.request_instance)]
                  IN  IF s2.info.request_instance # INVALID
                      THEN LET s3 == Failed([s2 EXCEPT
                                        !.db = DATA_MODEL_SetParameterValue(s2.db, "request_instance",
                                                   "-1", f["set_inst"])], f["set_inst"])
                           IN  IF s3.err # USP_ERR_OK THEN Return(s3, s3.err) ELSE s3
                      ELSE s2

\* A variant that does not look at whether a last version was recorded
IsFirmwareUpdated_NoPresenceTest(last_value, cur_value) == last_value # cur_value

\* line 889: the firmware was updated if the last version differs from the
\* current one, unless no last version was recorded
IsFirmwareUpdated(last_value, cur_value) == last_value # cur_value /\ last_value # ""

\* A variant that sets is_firmware_updated before the last version is rewritten
PopulateSoftwareVersion_FlagFirst(s, cur, f) ==
    IF s.returned THEN s
    ELSE LET s1 == Failed([s EXCEPT !.err = f["get_last"]], f["get_last"])
         IN  IF s1.err # USP_ERR_OK THEN Return(s1, s1.err)
             ELSE LET last_value == s1.db.last_software_version
                      s2 == Failed([s1 EXCEPT !.err = f["get_cur"]], f["get_cur"])
                  IN  IF s2.err # USP_ERR_OK THEN Return(s2, s2.err)
                      ELSE LET cur_value == cur
                               last_version == IF last_value = "" THEN cur_value ELSE last_value
                               s3 == [s2 EXCEPT !.info.cur_software_version = cur_value,
                                                !.info.last_software_version = last_version,
                                                !.info.is_firmware_updated =
                                                    IsFirmwareUpdated(last_value, cur_value)]
                               s4 == Failed([s3 EXCEPT
                                        !.db = DATA_MODEL_SetParameterValue(s3.db,
                                                   "last_software_version", cur_value, f["set_last"]),
                                        !.err = f["set_last"]], f["set_last"])
                           IN  Return(s4, s4.err)

\* lines 858-895: last and current software version, is_firmware_updated
PopulateSoftwareVersion(s, cur, f) ==
    IF s.returned THEN s
    ELSE LET s1 == Failed([s EXCEPT !.err = f["get_last"]], f["get_last"])
         IN  IF s1.err # USP_ERR_OK THEN Return(s1, s1.err)
             ELSE LET last_value == s1.db.last_software_version
                      s2 == Failed([s1 EXCEPT !.err = f["get_cur"]], f["get_cur"])
                  IN  IF s2.err # USP_ERR_OK THEN Return(s2, s2.err)
                      ELSE LET cur_value == cur
                               last_version == IF last_value = "" THEN cur_value ELSE last_value
                               s3 == [s2 EXCEPT !.info.cur_software_version = cur_value,
                                                !.info.last_software_version = last_version]
                               s4 == Failed([s3 EXCEPT
                                        !.db = DATA_MODEL_SetParameterValue(s3.db,
                                                   "last_software_version", cur_value, f["set_last"]),
                                        !.err = f["set_last"]], f["set_last"])
                           IN  IF s4.err # USP_ERR_OK THEN Return(s4, s4.err)
                               ELSE IF IsFirmwareUpdated(last_value, cur_value)
                                    THEN Return([s4 EXCEPT !.info.is_firmware_updated = TRUE], USP_ERR_OK)
                                    ELSE Return(s4, USP_ERR_OK)

\* A variant that puts the store back as it was when a step fails
PopulateRebootInfo_Rollback(d, info, cur, f) ==
    LET s0 == [ db |-> d,
                info |-> [info EXCEPT !.is_firmware_updated = FALSE],
                err |-> USP_ERR_OK, returned |-> FALSE, ret |-> USP_ERR_OK,
                fail |-> USP_ERR_OK ]
        s4 == PopulateSoftwareVersion(
                  PopulateRequestInstance(PopulateCommandKey(PopulateCause(s0, f), f), f), cur, f)
    IN  IF s4.ret # USP_ERR_OK THEN [s4 EXCEPT !.db = d] ELSE s4

PopulateRebootInfo(d, info, cur, f) ==
    LET s0 == [ db |-> d,
                info |-> [info EXCEPT !.is_firmware_updated = FALSE],
                err |-> USP_ERR_OK, returned |-> FALSE, ret |-> USP_ERR_OK,
                fail |-> USP_ERR_OK ]
    IN  PopulateSoftwareVersion(
            PopulateRequestInstance(PopulateCommandKey(PopulateCause(s0, f), f), f), cur, f)

\* ------------------------------------------------------------------------
\* Identity: OUI, serial number and endpoint_id (the build without
\* REMOVE_DEVICE_INFO).  Strings are taken to fit the MAX_DM_SHORT_VALUE_LEN
\* buffers they are copied into.

\* The data model's view of a parameter: the value in the store if it has
\* one, the registered default otherwise
DATA_MODEL_GetParameterValue(store, defaults, path, e) ==
    IF e # USP_ERR_OK THEN [ ret |-> e, buf |-> "" ]
    ELSE [ ret |-> USP_ERR_OK,
           buf |-> IF store[path] # NULL THEN store[path] ELSE defaults[path] ]

DM_PRIV_ReRegister_DBParam_Default(defaults, path, value, e) ==
    IF e = USP_ERR_OK THEN [defaults EXCEPT ![path] = value] ELSE defaults

HexDigitChars ==
    <<"0", "1", "2", "3", "4", "5", "6", "7", "8", "9", "A", "B", "C", "D", "E", "F">>

TEXT_UTILS_ValueToHexDigit(nibble) == HexDigitChars[nibble + 1]

\* lines 645-661
GetDefaultOUI(env) ==
    IF env.board_oui # NULL /\ env.board_oui # ""
    THEN [ ret |-> USP_ERR_OK, buf |-> env.board_oui ]
    ELSE [ ret |-> USP_ERR_OK, buf |-> VENDOR_OUI ]

\* A variant that writes the low nibble of an octet first
HexOfOctet_LowFirst(val) ==
    TEXT_UTILS_ValueToHexDigit(val % 16) \o TEXT_UTILS_ValueToHexDigit((val \div 16) % 16)

\* lines 720-722: (val & 0xF0) >> 4, then val & 0x0F
HexOfOctet(val) ==
    TEXT_UTILS_ValueToHexDigit((val \div 16) % 16) \o TEXT_UTILS_ValueToHexDigit(val % 16)

\* lines 717-724: the loop over mac_addr[i], i = 0 .. MAC_ADDR_LEN-1
RECURSIVE HexOfMacAddr(_, _)
HexOfMacAddr(mac_addr, i) ==
    IF i >= MAC_ADDR_LEN THEN ""
    ELSE HexOfOctet(mac_addr[i + 1]) \o HexOfMacAddr(mac_addr, i + 1)

\* A variant that falls back to the other sources when the vendor hook fails
GetDefaultSerialNumber_HookFallback(env) ==
    IF env.serial_cb.registered /\ env.serial_cb.ret = USP_ERR_OK
    THEN [ ret |-> USP_ERR_OK, buf |-> env.serial_cb.value ]
    ELSE IF env.board_serial # NULL /\ env.board_serial # ""
    THEN [ ret |-> USP_ERR_OK, buf |-> env.board_serial ]
    ELSE IF env.mac.ret # USP_ERR_OK
    THEN [ ret |-> env.mac.ret, buf |-> "" ]
    ELSE [ ret |-> USP_ERR_OK, buf |-> HexOfMacAddr(env.mac.addr, 0) ]

\* lines 676-727
GetDefaultSerialNumber(env) ==
    IF env.serial_cb.registered
    THEN IF env.serial_cb.ret # USP_ERR_OK
         THEN [ ret |-> USP_ERR_INTERNAL_ERROR, buf |-> "" ]
         ELSE [ ret |-> USP_ERR_OK, buf |-> env.serial_cb.value ]
    ELSE IF env.board_serial # NULL /\ env.board_serial # ""
    THEN [ ret |-> USP_ERR_OK, buf |-> env.board_serial ]
    ELSE IF env.mac.ret # USP_ERR_OK
    THEN [ ret |-> env.mac.ret, buf |-> "" ]
    ELSE [ ret |-> USP_ERR_OK, buf |-> HexOfMacAddr(env.mac.addr, 0) ]

\* A variant that puts the serial number before the OUI
GetDefaultEndpointID_SerialFirst(env, oui, serial_number) ==
    IF env.endpoint_cb.registered
    THEN IF env.endpoint_cb.ret # USP_ERR_OK
         THEN [ ret |-> USP_ERR_INTERNAL_ERROR, buf |-> "" ]
         ELSE [ ret |-> USP_ERR_OK, buf |-> env.endpoint_cb.value ]
    ELSE IF serial_number = ""
    THEN [ ret |-> USP_ASSERT_FAILED, buf |-> "" ]
    ELSE [ ret |-> USP_ERR_OK, buf |-> "os::" \o serial_number \o "-" \o oui ]

\* lines 745-769
GetDefaultEndpointID(env, oui, serial_number) ==
    IF env.endpoint_cb.registered
    THEN IF env.endpoint_cb.ret # USP_ERR_OK
         THEN [ ret |-> USP_ERR_INTERNAL_ERROR, buf |-> "" ]
         ELSE [ ret |-> USP_ERR_OK, buf |-> env.endpoint_cb.value ]
    ELSE IF serial_number = ""
    THEN [ ret |-> USP_ASSERT_FAILED, buf |-> "" ]
    ELSE [ ret |-> USP_ERR_OK, buf |-> "os::" \o oui \o "-" \o serial_number ]

\* The locals of DEVICE_LOCAL_AGENT_SetDefaults that a caller cannot see,
\* kept for the record: "NONE" where the function did not get that far
NoIdent ==
    [ ret |-> "NONE", oui |-> "NONE", serial_ret |-> "NONE", default_serial |-> "NONE",
      serial_number |-> "NONE", endpoint_ret |-> "NONE", default_endpoint_id |-> "NONE" ]

\* lines 206-240: OUI
SetDefaultsOUI(s, env, store, f) ==
    LET d == GetDefaultOUI(env)
    IN  IF d.ret # USP_ERR_OK THEN Return(s, d.ret)
        ELSE LET s1 == [s EXCEPT !.defaults = DM_PRIV_ReRegister_DBParam_Default(
                                                   s.defaults, "oui", d.buf, f["reg_oui"])]
             IN  IF f["reg_oui"] # USP_ERR_OK THEN Return(s1, f["reg_oui"])
                 ELSE LET g == DATA_MODEL_GetParameterValue(store, s1.defaults, "oui", f["get_oui"])
                      IN  IF g.ret # USP_ERR_OK THEN Return(s1, g.ret)
                          ELSE [s1 EXCEPT !.ident.oui = g.buf]

\* A variant that keeps the default it has computed instead of the value read
\* back from the data model
SetDefaultsSerialNumber_UseDefault(s, env, store, f) ==
    IF s.returned THEN s
    ELSE LET d == GetDefaultSerialNumber(env)
             s0 == [s EXCEPT !.ident.serial_ret = d.ret]
         IN  IF d.ret # USP_ERR_OK THEN Return(s0, d.ret)
             ELSE LET s1 == [s0 EXCEPT !.ident.default_serial = d.buf,
                                       !.defaults = DM_PRIV_ReRegister_DBParam_Default(
                                            s.defaults, "serial_number", d.buf, f["reg_serial"])]
                  IN  IF f["reg_serial"] # USP_ERR_OK THEN Return(s1, f["reg_serial"])
                      ELSE IF f["get_serial"] # USP_ERR_OK THEN Return(s1, f["get_serial"])
                      ELSE [s1 EXCEPT !.ident.serial_number = d.buf]

\* lines 242-276: serial number
SetDefaultsSerialNumber(s, env, store, f) ==
    IF s.returned THEN s
    ELSE LET d == GetDefaultSerialNumber(env)
             s0 == [s EXCEPT !.ident.serial_ret = d.ret]
         IN  IF d.ret # USP_ERR_OK THEN Return(s0, d.ret)
             ELSE LET s1 == [s0 EXCEPT !.ident.default_serial = d.buf,
                                       !.defaults = DM_PRIV_ReRegister_DBParam_Default(
                                            s.defaults, "serial_number", d.buf, f["reg_serial"])]
                  IN  IF f["reg_serial"] # USP_ERR_OK THEN Return(s1, f["reg_serial"])
                      ELSE LET g == DATA_MODEL_GetParameterValue(store, s1.defaults,
                                        "serial_number", f["get_serial"])
                           IN  IF g.ret # USP_ERR_OK THEN Return(s1, g.ret)
                               ELSE [s1 EXCEPT !.ident.serial_number = g.buf]

\* A variant that caches the default it has computed
SetDefaultsEndpointID_CacheDefault(s, env, store, f) ==
    IF s.returned THEN s
    ELSE LET d == GetDefaultEndpointID(env, s.ident.oui, s.ident.serial_number)
             s0 == [s EXCEPT !.ident.endpoint_ret = d.ret]
         IN  IF d.ret # USP_ERR_OK THEN Return(s0, d.ret)
             ELSE LET s1 == [s0 EXCEPT !.ident.default_endpoint_id = d.buf,
                                       !.defaults = DM_PRIV_ReRegister_DBParam_Default(
                                            s.defaults, "endpoint_id", d.buf, f["reg_endpoint"])]
                  IN  IF f["reg_endpoint"] # USP_ERR_OK THEN Return(s1, f["reg_endpoint"])
                      ELSE IF f["get_endpoint"] # USP_ERR_OK THEN Return(s1, f["get_endpoint"])
                      ELSE Return([s1 EXCEPT !.agent_endpoint_id = d.buf], USP_ERR_OK)

\* lines 278-302: endpoint_id
SetDefaultsEndpointID(s, env, store, f) ==
    IF s.returned THEN s
    ELSE LET d == GetDefaultEndpointID(env, s.ident.oui, s.ident.serial_number)
             s0 == [s EXCEPT !.ident.endpoint_ret = d.ret]
         IN  IF d.ret # USP_ERR_OK THEN Return(s0, d.ret)
             ELSE LET s1 == [s0 EXCEPT !.ident.default_endpoint_id = d.buf,
                                       !.defaults = DM_PRIV_ReRegister_DBParam_Default(
                                            s.defaults, "endpoint_id", d.buf, f["reg_endpoint"])]
                  IN  IF f["reg_endpoint"] # USP_ERR_OK THEN Return(s1, f["reg_endpoint"])
                      ELSE LET g == DATA_MODEL_GetParameterValue(store, s1.defaults,
                                        "endpoint_id", f["get_endpoint"])
                           IN  IF g.ret # USP_ERR_OK THEN Return(s1, g.ret)
                               ELSE Return([s1 EXCEPT !.agent_endpoint_id = g.buf], USP_ERR_OK)

\* DEVICE_LOCAL_AGENT_SetDefaults on the registered defaults and the cached
\* endpoint_id; the result carries the return code in 'ret'
DEVICE_LOCAL_AGENT_SetDefaults(defaults, endpoint_id, env, store, f) ==
    LET s0 == [ defaults |-> defaults, agent_endpoint_id |-> endpoint_id,
                ident |-> NoIdent, returned |-> FALSE, ret |-> USP_ERR_OK ]
        s3 == SetDefaultsEndpointID(
                  SetDefaultsSerialNumber(SetDefaultsOUI(s0, env, store, f), env, store, f),
                  env, store, f)
    IN  [s3 EXCEPT !.ident.ret = s3.ret]

\* ------------------------------------------------------------------------
\* Internal.DualStackPreference

\* A variant that compares without regard to case
Validate_DualStackPreference_NoCase(value) ==
    IF value \in {"IPv4", "IPv6", "ipv4", "ipv6"} THEN USP_ERR_OK ELSE USP_ERR_INVALID_VALUE

\* lines 484-495
Validate_DualStackPreference(value) ==
    IF value = "IPv4" \/ value = "IPv6" THEN USP_ERR_OK ELSE USP_ERR_INVALID_VALUE

\* ------------------------------------------------------------------------
VARIABLES
    db,                      \* persisted store
    software_version,        \* Device.DeviceInfo.SoftwareVersion of the running image
    pc,                      \* "loaded", "inited", "started", "running", "failed"
    scheduled_exit_action,   \* static scheduled_exit_action
    reboot_info,             \* static reboot_info
    dual_stack_prefer_ipv6,  \* static dual_stack_prefer_ipv6
    mtp_exit_scheduled,      \* MTP_EXEC_ScheduleExit() has been signalled
    op,                      \* history: the operation executed last
    start,                   \* history: results of DEVICE_LOCAL_AGENT_Start of this boot
    hist,                    \* history: ScheduleReboot calls of this process
    prev,                    \* history: what the previous process left behind
    agent_endpoint_id,       \* static agent_endpoint_id
    id_store,                \* persisted store: OUI, serial number and endpoint_id
    id_default,              \* data model: registered defaults of these parameters
    platform,                \* environment variables, vendor hooks, WAN MAC address
    ident,                   \* history: DEVICE_LOCAL_AGENT_SetDefaults of this process
    dual,                    \* history: writes of Internal.DualStackPreference
    calls                    \* per thread: arguments and progress of its ScheduleReboot call

vars == <<db, software_version, pc, scheduled_exit_action, reboot_info,
          dual_stack_prefer_ipv6, mtp_exit_scheduled, op, start, hist, prev,
          agent_endpoint_id, id_store, id_default, platform, ident, dual, calls>>

\* The variables of the identity and of the dual stack preference history
idvars == <<agent_endpoint_id, id_store, id_default, platform, ident>>

\* ------------------------------------------------------------------------
\* NotifyChange_DualStackPreference: the cached boolean for a value
\* A variant that tests for the other value
NotifyChange_DualStackPreference_Inverted(value) == IF value = "IPv4" THEN TRUE ELSE FALSE

\* A variant that leaves the cache alone for a value it does not know
NotifyChange_DualStackPreference_KeepUnknown(value) ==
    IF value = "IPv6" THEN TRUE
    ELSE IF value = "IPv4" THEN FALSE ELSE dual_stack_prefer_ipv6

NotifyChange_DualStackPreference(value) == IF value = "IPv6" THEN TRUE ELSE FALSE

\* line 523: what NotifyChange_DualStackPreference returns
NotifyChange_DualStackPreference_Return(value) == USP_ERR_OK

\* A set of Internal.DualStackPreference through the data model, on
\* m = [db, dual_stack_prefer_ipv6]: the registered validator is called, then
\* the value is written to the store, then the registered notification is
\* called.  The result carries the return code in 'ret' and what the validator
\* returned in 'validate_ret'.
DATA_MODEL_SetDualStackPreference(m, value, f) ==
    LET v == Validate_DualStackPreference(value)
        m1 == [m EXCEPT !.validate_ret = v]
    IN  IF v # USP_ERR_OK THEN [m1 EXCEPT !.ret = v]
        ELSE IF f["set_dual"] # USP_ERR_OK THEN [m1 EXCEPT !.ret = f["set_dual"]]
        ELSE [m1 EXCEPT !.db = DATA_MODEL_SetParameterValue(m.db, "dual_stack_preference",
                                                            value, USP_ERR_OK),
                        !.dual_stack_prefer_ipv6 = NotifyChange_DualStackPreference(value),
                        !.ret = USP_ERR_OK]

\* A variant that never persists the command key
ScheduleRebootWrites_NoCommandKey(d, reboot_cause, command_key, request_instance, f) ==
    LET d1 == DATA_MODEL_SetParameterValue(d, "cause", reboot_cause, f["set_cause"])
    IN  IF f["set_cause"] # USP_ERR_OK THEN [db |-> d1, ret |-> f["set_cause"]]
        ELSE [ db |-> DM_ACCESS_SetInteger(d1, "request_instance", request_instance, f["set_inst"]),
               ret |-> f["set_inst"] ]

\* lines 376-395 of DEVICE_LOCAL_AGENT_ScheduleReboot: the three writes to the
\* store, each checked; the result is the store and the code of the first
\* write that failed (USP_ERR_OK if none did)
ScheduleRebootWrites(d, reboot_cause, command_key, request_instance, f) ==
    LET d1 == DATA_MODEL_SetParameterValue(d, "cause", reboot_cause, f["set_cause"])
    IN  IF f["set_cause"] # USP_ERR_OK THEN [db |-> d1, ret |-> f["set_cause"]]
        ELSE LET d2 == DATA_MODEL_SetParameterValue(d1, "command_key", command_key, f["set_key"])
             IN  IF f["set_key"] # USP_ERR_OK THEN [db |-> d2, ret |-> f["set_key"]]
                 ELSE [ db |-> DM_ACCESS_SetInteger(d2, "request_instance", request_instance,
                                                    f["set_inst"]),
                        ret |-> f["set_inst"] ]

\* A variant that records the exit action before the store is written
ScheduleReboot_ActionFirst(m, exit_action, reboot_cause, command_key, request_instance, f) ==
    LET w == ScheduleRebootWrites(m.db, reboot_cause, command_key, request_instance, f)
    IN  IF w.ret # USP_ERR_OK
        THEN [m EXCEPT !.db = w.db, !.scheduled_exit_action = exit_action, !.ret = w.ret]
        ELSE [m EXCEPT !.db = w.db, !.scheduled_exit_action = exit_action,
                       !.mtp_exit_scheduled = TRUE, !.ret = USP_ERR_OK]

\* A variant that keeps the first action that was scheduled
ScheduleReboot_KeepFirst(m, exit_action, reboot_cause, command_key, request_instance, f) ==
    LET w == ScheduleRebootWrites(m.db, reboot_cause, command_key, request_instance, f)
    IN  IF w.ret # USP_ERR_OK THEN [m EXCEPT !.db = w.db, !.ret = w.ret]
        ELSE [m EXCEPT !.db = w.db,
                       !.scheduled_exit_action =
                           IF m.scheduled_exit_action = kExitAction_Exit
                           THEN exit_action ELSE m.scheduled_exit_action,
                       !.mtp_exit_scheduled = TRUE, !.ret = USP_ERR_OK]

\* A variant that clears the exit action when a write fails
ScheduleReboot_ResetOnFailure(m, exit_action, reboot_cause, command_key, request_instance, f) ==
    LET w == ScheduleRebootWrites(m.db, reboot_cause, command_key, request_instance, f)
    IN  IF w.ret # USP_ERR_OK
        THEN [m EXCEPT !.db = w.db, !.scheduled_exit_action = kExitAction_Exit, !.ret = w.ret]
        ELSE [m EXCEPT !.db = w.db, !.scheduled_exit_action = exit_action,
                       !.mtp_exit_scheduled = TRUE, !.ret = USP_ERR_OK]

\* A variant that puts the store back as it was when a write fails
ScheduleReboot_Rollback(m, exit_action, reboot_cause, command_key, request_instance, f) ==
    LET w == ScheduleRebootWrites(m.db, reboot_cause, command_key, request_instance, f)
    IN  IF w.ret # USP_ERR_OK THEN [m EXCEPT !.ret = w.ret]
        ELSE [m EXCEPT !.db = w.db, !.scheduled_exit_action = exit_action,
                       !.mtp_exit_scheduled = TRUE, !.ret = USP_ERR_OK]

\* DEVICE_LOCAL_AGENT_ScheduleReboot on m = [db, scheduled_exit_action,
\* mtp_exit_scheduled]; the result carries the return code in 'ret'
DEVICE_LOCAL_AGENT_ScheduleReboot(m, exit_action, reboot_cause, command_key, request_instance, f) ==
    LET w == ScheduleRebootWrites(m.db, reboot_cause, command_key, request_instance, f)
    IN  IF w.ret # USP_ERR_OK THEN [m EXCEPT !.db = w.db, !.ret = w.ret]
        ELSE [m EXCEPT !.db = w.db, !.scheduled_exit_action = exit_action,
                       !.mtp_exit_scheduled = TRUE, !.ret = USP_ERR_OK]

\* lines 592-602: the handler of the Reboot operation
ScheduleReboot(m, command_key, f) ==
    DEVICE_LOCAL_AGENT_ScheduleReboot(m, kExitAction_Reboot, "RemoteReboot", command_key,
                                      INVALID, f)

\* A variant that reports a factory reset as a remote reboot
ScheduleFactoryReset_AsReboot(m, command_key, f) ==
    DEVICE_LOCAL_AGENT_ScheduleReboot(m, kExitAction_FactoryReset, "RemoteReboot",
                                      command_key, INVALID, f)

\* lines 620-630: the handler of the FactoryReset operation
ScheduleFactoryReset(m, command_key, f) ==
    DEVICE_LOCAL_AGENT_ScheduleReboot(m, kExitAction_FactoryReset, "RemoteFactoryReset",
                                      command_key, INVALID, f)

DEVICE_LOCAL_AGENT_GetExitAction == scheduled_exit_action

\* A variant that reads cause and command key from the store at every call
GetRebootInfo_FromStore ==
    [reboot_info EXCEPT !.cause = db.cause, !.command_key = db.command_key]

DEVICE_LOCAL_AGENT_GetRebootInfo == reboot_info

DEVICE_LOCAL_AGENT_GetDualStackPreference == dual_stack_prefer_ipv6

\* A variant that asks the data model at every call
GetEndpointID_FromDataModel ==
    IF ident.ret = USP_ERR_OK
    THEN DATA_MODEL_GetParameterValue(id_store, id_default, "endpoint_id", USP_ERR_OK).buf
    ELSE agent_endpoint_id

DEVICE_LOCAL_AGENT_GetEndpointID == agent_endpoint_id

\* ------------------------------------------------------------------------
\* History bookkeeping
NoCall ==
    [ some |-> FALSE, action |-> kExitAction_Exit, cause |-> "", command_key |-> "",
      request_instance |-> INVALID ]

\* ret: what DEVICE_LOCAL_AGENT_Start returned; populate_ret: what
\* PopulateRebootInfo returned; populate_fail: the first store call of
\* PopulateRebootInfo that failed (USP_ERR_OK if none); populate_failed: one did
NoStart ==
    [ ret |-> "NONE", populate_ret |-> "NONE", populate_fail |-> "NONE",
      populate_failed |-> FALSE ]

\* ret, fail: return code and first failing write of the last ScheduleReboot call
\* was:       the exit action before the last ScheduleReboot call
\* last_ok:   the last call that returned USP_ERR_OK
\* dirty:     a failed call after last_ok has written at least one slot
\* quiet:     PopulateRebootInfo returned USP_ERR_OK in this boot, no call since
\* clean:     PopulateRebootInfo returned USP_ERR_OK in this or an earlier boot
\*            and ScheduleReboot has not been called since
NoHist ==
    [ ret |-> "NONE", fail |-> "NONE", was |-> kExitAction_Exit, last_ok |-> NoCall,
      dirty |-> FALSE, quiet |-> FALSE, clean |-> FALSE ]

\* version: the software version of the previous boot, if it was quiet
\* clean:   as in hist, at the end of the previous process
\* last_ok, dirty: as in hist, at the end of the previous process
\* pending: the software version of the last boot that ran PopulateRebootInfo,
\*          if it found a different last version and failed to rewrite it
NoPrev ==
    [ version |-> "NONE", clean |-> FALSE, last_ok |-> NoCall, dirty |-> FALSE,
      pending |-> "NONE" ]

\* The value of prev.pending at the end of this process.  PopulateRebootInfo
\* has read the current version (line 876) and the store still holds another
\* last version exactly when the rewrite at line 881 has failed: nothing else
\* writes the last version.
PendingUpdate ==
    IF pc \in {"loaded", "inited"} THEN prev.pending
    ELSE IF /\ reboot_info.cur_software_version # NULL
            /\ db.last_software_version \notin {"", software_version}
         THEN software_version
         ELSE "NONE"

\* The first failing write of a ScheduleReboot call, in program order
FirstFault(f) ==
    IF f["set_cause"] # USP_ERR_OK THEN f["set_cause"]
    ELSE IF f["set_key"] # USP_ERR_OK THEN f["set_key"]
    ELSE f["set_inst"]

\* candidate, validate_ret, ret: the value of the last set of
\*   Internal.DualStackPreference, what the validator and the set returned
\* last_valid: the value of the last set that passed validation and was
\*   written to the store (the registered default "IPv4" if there was none)
NoDual ==
    [ candidate |-> "NONE", validate_ret |-> "NONE", ret |-> "NONE", last_valid |-> "IPv4",
      was |-> FALSE ]

\* The defaults DEVICE_LOCAL_AGENT_Init registers for OUI, serial number and
\* endpoint_id
InitialIdDefaults == [ oui |-> "", serial_number |-> "", endpoint_id |-> "" ]

\* Threads that call DEVICE_LOCAL_AGENT_ScheduleReboot
Threads == {1, 2}

\* pc: "idle", then the statement the call is at ("set_cause", "set_key",
\*   "set_inst", "set_action", "signal"), then "done"
\* exit_action .. request_instance: the arguments of the call
\* ret: what the call returned ("NONE" before it returns)
\* steps: the statements the call has executed with success, in order
\* alone: no other thread was inside a call while this one was
IdleCall ==
    [ pc |-> "idle", exit_action |-> kExitAction_Exit, cause |-> "", command_key |-> "",
      request_instance |-> INVALID, ret |-> "NONE", steps |-> <<>>, alone |-> TRUE ]

NoCalls == [ t \in Threads |-> IdleCall ]

ZeroRebootInfo ==
    [ cause |-> NULL, command_key |-> NULL, request_instance |-> 0,
      cur_software_version |-> NULL, last_software_version |-> NULL,
      is_firmware_updated |-> FALSE ]

\* ------------------------------------------------------------------------
Init ==
    /\ db = DbDefaults
    /\ software_version \in SoftwareVersions
    /\ pc = "loaded"
    /\ scheduled_exit_action = kExitAction_Exit
    /\ reboot_info = ZeroRebootInfo
    /\ dual_stack_prefer_ipv6 = FALSE
    /\ mtp_exit_scheduled = FALSE
    /\ op = "Load"
    /\ start = NoStart
    /\ hist = NoHist
    /\ prev = NoPrev
    /\ agent_endpoint_id = ""
    /\ id_store = NoIdStore
    /\ id_default = InitialIdDefaults
    /\ platform = DefaultPlatform
    /\ ident = NoIdent
    /\ dual = NoDual
    /\ calls = NoCalls

\* DEVICE_LOCAL_AGENT_Init: clears reboot_info and registers the parameters
AgentInit ==
    /\ pc = "loaded"
    /\ reboot_info' = ZeroRebootInfo
    /\ pc' = "inited"
    /\ op' = "Init"
    /\ UNCHANGED <<db, software_version, scheduled_exit_action, dual_stack_prefer_ipv6,
                   mtp_exit_scheduled, start, hist, prev, idvars, dual, calls>>

\* DEVICE_LOCAL_AGENT_Start on m = [db, reboot_info, dual_stack_prefer_ipv6]:
\* PopulateRebootInfo (its result is not looked at), then the dual stack
\* preference is read and cached.  The result carries the return code in
\* 'ret' and what PopulateRebootInfo returned in 'populate'.
DEVICE_LOCAL_AGENT_Start(m, cur, f) ==
    LET p == PopulateRebootInfo(m.db, m.reboot_info, cur, f)
        err == f["get_dual"]
        m1 == [m EXCEPT !.db = p.db, !.reboot_info = p.info, !.populate = p]
    IN  IF err # USP_ERR_OK THEN [m1 EXCEPT !.ret = err]
        ELSE [m1 EXCEPT !.dual_stack_prefer_ipv6 =
                            NotifyChange_DualStackPreference(p.db.dual_stack_preference),
                        !.ret = USP_ERR_OK]

AgentStart ==
    /\ pc = "inited"
    /\ \E f \in StartFaults :
          LET m == DEVICE_LOCAL_AGENT_Start(
                      [ db |-> db, reboot_info |-> reboot_info,
                        dual_stack_prefer_ipv6 |-> dual_stack_prefer_ipv6,
                        ret |-> USP_ERR_OK, populate |-> <<>> ],
                      software_version, f)
          IN  /\ db' = m.db
              /\ reboot_info' = m.reboot_info
              /\ dual_stack_prefer_ipv6' = m.dual_stack_prefer_ipv6
              /\ start' = [ ret |-> m.ret, populate_ret |-> m.populate.ret,
                            populate_fail |-> m.populate.fail,
                            populate_failed |-> m.populate.fail # USP_ERR_OK ]
              /\ pc' = IF m.ret # USP_ERR_OK THEN "failed" ELSE "started"
    /\ op' = "Start"
    /\ UNCHANGED <<software_version, scheduled_exit_action, mtp_exit_scheduled, hist, prev,
                   idvars, dual, calls>>

\* Start-up has returned USP_ERR_OK to process initialisation, which goes on
\* to serve requests
EnterMainLoop ==
    /\ pc = "started"
    /\ pc' = "running"
    /\ op' = "Run"
    /\ hist' = [NoHist EXCEPT !.quiet = (start.populate_ret = USP_ERR_OK),
                              !.clean = (start.populate_ret = USP_ERR_OK \/ prev.clean)]
    /\ start' = NoStart
    /\ prev' = NoPrev
    /\ UNCHANGED <<db, software_version, scheduled_exit_action, reboot_info,
                   dual_stack_prefer_ipv6, mtp_exit_scheduled, idvars, dual, calls>>

\* A caller invokes DEVICE_LOCAL_AGENT_ScheduleReboot
ScheduleExit ==
    /\ pc = "running"
    /\ \E exit_action \in ExitActions, payload \in Payloads, f \in ScheduleFaults :
          LET reboot_cause == payload[1]
              command_key == payload[2]
              request_instance == payload[3]
              m == DEVICE_LOCAL_AGENT_ScheduleReboot(
                      [ db |-> db, scheduled_exit_action |-> scheduled_exit_action,
                        mtp_exit_scheduled |-> mtp_exit_scheduled, ret |-> USP_ERR_OK ],
                      exit_action, reboot_cause, command_key, request_instance, f)
          IN  /\ db' = m.db
              /\ scheduled_exit_action' = m.scheduled_exit_action
              /\ mtp_exit_scheduled' = m.mtp_exit_scheduled
              /\ hist' = [ ret |-> m.ret,
                           fail |-> FirstFault(f),
                           was |-> scheduled_exit_action,
                           last_ok |-> IF m.ret = USP_ERR_OK
                                       THEN [ some |-> TRUE, action |-> exit_action,
                                              cause |-> reboot_cause, command_key |-> command_key,
                                              request_instance |-> request_instance ]
                                       ELSE hist.last_ok,
                           dirty |-> IF m.ret = USP_ERR_OK THEN FALSE
                                     ELSE hist.dirty \/ f["set_cause"] = USP_ERR_OK,
                           quiet |-> FALSE,
                           clean |-> FALSE ]
    /\ op' = "ScheduleExit"
    /\ UNCHANGED <<software_version, pc, reboot_info, dual_stack_prefer_ipv6, start, prev,
                   idvars, dual, calls>>

\* The process ends and the device comes up again: the store is kept, the
\* statics of the new process have their initial values, and the image may
\* have been replaced by another software version
Restart ==
    /\ software_version' \in SoftwareVersions
    /\ pc' = "loaded"
    /\ scheduled_exit_action' = kExitAction_Exit
    /\ reboot_info' = ZeroRebootInfo
    /\ dual_stack_prefer_ipv6' = FALSE
    /\ mtp_exit_scheduled' = FALSE
    /\ op' = "Load"
    /\ start' = NoStart
    /\ hist' = NoHist
    /\ prev' = CASE pc = "running" ->
                      [ version |-> IF hist.quiet THEN software_version ELSE "NONE",
                        clean |-> hist.clean,
                        last_ok |-> hist.last_ok,
                        dirty |-> hist.last_ok.some /\ hist.dirty,
                        pending |-> PendingUpdate ]
                 [] pc \in {"started", "failed"} ->
                      [ NoPrev EXCEPT
                          !.version = IF start.populate_ret = USP_ERR_OK
                                      THEN software_version ELSE "NONE",
                          !.clean = (start.populate_ret = USP_ERR_OK \/ prev.clean),
                          !.pending = PendingUpdate ]
                 [] OTHER -> [ NoPrev EXCEPT !.clean = prev.clean, !.pending = PendingUpdate ]
    /\ agent_endpoint_id' = ""
    /\ id_default' = InitialIdDefaults
    /\ ident' = NoIdent
    /\ dual' = [NoDual EXCEPT !.last_valid = dual.last_valid]
    /\ calls' = NoCalls
    /\ UNCHANGED <<db, id_store, platform>>

\* DATA_MODEL_Init calls DEVICE_LOCAL_AGENT_SetDefaults once, after
\* DEVICE_LOCAL_AGENT_Init and before DEVICE_LOCAL_AGENT_Start
SetDefaults ==
    /\ pc = "inited"
    /\ ident.ret = "NONE"
    /\ \E f \in SetDefaultsFaults :
          LET m == DEVICE_LOCAL_AGENT_SetDefaults(id_default, agent_endpoint_id,
                                                  platform, id_store, f)
          IN  /\ id_default' = m.defaults
              /\ agent_endpoint_id' = m.agent_endpoint_id
              /\ ident' = m.ident
              /\ pc' = IF m.ret # USP_ERR_OK THEN "failed" ELSE "inited"
    /\ op' = "SetDefaults"
    /\ UNCHANGED <<db, software_version, scheduled_exit_action, reboot_info,
                   dual_stack_prefer_ipv6, mtp_exit_scheduled, start, hist, prev,
                   id_store, platform, dual, calls>>

\* After the endpoint_id has been cached, the value of OUI, serial number or
\* endpoint_id in the store is replaced, or removed
ChangePersistedIdentity ==
    /\ ident.ret = USP_ERR_OK
    /\ \E st \in IdStores :
          /\ st # id_store
          /\ id_store' = st
    /\ op' = "ChangePersistedIdentity"
    /\ UNCHANGED <<db, software_version, pc, scheduled_exit_action, reboot_info,
                   dual_stack_prefer_ipv6, mtp_exit_scheduled, start, hist, prev,
                   agent_endpoint_id, id_default, platform, ident, dual, calls>>

\* A controller or the CLI sets Internal.DualStackPreference
SetDualStackPreference ==
    /\ pc = "running"
    /\ \E value \in DualStackCandidates, f \in DualStackFaults :
          LET m == DATA_MODEL_SetDualStackPreference(
                      [ db |-> db, dual_stack_prefer_ipv6 |-> dual_stack_prefer_ipv6,
                        ret |-> USP_ERR_OK, validate_ret |-> USP_ERR_OK ], value, f)
          IN  /\ db' = m.db
              /\ dual_stack_prefer_ipv6' = m.dual_stack_prefer_ipv6
              /\ dual' = [ candidate |-> value, validate_ret |-> m.validate_ret,
                           ret |-> m.ret,
                           last_valid |-> IF value \in {"IPv4", "IPv6"}
                                             /\ f["set_dual"] = USP_ERR_OK
                                          THEN value ELSE dual.last_valid,
                           was |-> FALSE ]
    /\ op' = "SetDualStackPreference"
    /\ UNCHANGED <<software_version, pc, scheduled_exit_action, reboot_info,
                   mtp_exit_scheduled, start, hist, prev, idvars, calls>>

Next == AgentInit \/ AgentStart \/ EnterMainLoop \/ ScheduleExit \/ Restart

Spec == Init /\ [][Next]_vars

\* ------------------------------------------------------------------------
\* The handlers of the Reboot and FactoryReset operations, called on thread 1

\* The statements of DEVICE_LOCAL_AGENT_ScheduleReboot, in program order
CallStatements == <<"set_cause", "set_key", "set_inst", "set_action", "signal">>

\* The statements a call has executed with success when e is the code of its
\* first failing write (USP_ERR_OK if none fails)
StepsDone(e) ==
    CASE e = StoreErr("set_cause") -> <<>>
      [] e = StoreErr("set_key") -> SubSeq(CallStatements, 1, 1)
      [] e = StoreErr("set_inst") -> SubSeq(CallStatements, 1, 2)
      [] OTHER -> CallStatements

\* What a handler that has run to its end leaves behind: m is the result of
\* its DEVICE_LOCAL_AGENT_ScheduleReboot call with the given arguments
HandlerReturns(m, exit_action, reboot_cause, command_key, f) ==
    /\ db' = m.db
    /\ scheduled_exit_action' = m.scheduled_exit_action
    /\ mtp_exit_scheduled' = m.mtp_exit_scheduled
    /\ hist' = [ ret |-> m.ret,
                 fail |-> FirstFault(f),
                 was |-> scheduled_exit_action,
                 last_ok |-> IF m.ret = USP_ERR_OK
                             THEN [ some |-> TRUE, action |-> exit_action,
                                    cause |-> reboot_cause, command_key |-> command_key,
                                    request_instance |-> INVALID ]
                             ELSE hist.last_ok,
                 dirty |-> IF m.ret = USP_ERR_OK THEN FALSE
                           ELSE hist.dirty \/ f["set_cause"] = USP_ERR_OK,
                 quiet |-> FALSE,
                 clean |-> FALSE ]
    /\ calls' = [calls EXCEPT ![1] =
                    [ pc |-> "done", exit_action |-> exit_action, cause |-> reboot_cause,
                      command_key |-> command_key, request_instance |-> INVALID,
                      ret |-> m.ret, steps |-> StepsDone(FirstFault(f)), alone |-> TRUE ]]
    /\ UNCHANGED <<software_version, pc, reboot_info, dual_stack_prefer_ipv6, start, prev,
                   idvars, dual>>

\* A controller invokes Device.Reboot()
DeviceReboot ==
    /\ pc = "running"
    /\ \E command_key \in CommandKeys, f \in ScheduleFaults :
          HandlerReturns(
              ScheduleReboot([ db |-> db, scheduled_exit_action |-> scheduled_exit_action,
                               mtp_exit_scheduled |-> mtp_exit_scheduled,
                               ret |-> USP_ERR_OK ], command_key, f),
              kExitAction_Reboot, "RemoteReboot", command_key, f)
    /\ op' = "DeviceReboot"

\* A controller invokes Device.FactoryReset()
DeviceFactoryReset ==
    /\ pc = "running"
    /\ \E command_key \in CommandKeys, f \in ScheduleFaults :
          HandlerReturns(
              ScheduleFactoryReset([ db |-> db, scheduled_exit_action |-> scheduled_exit_action,
                                     mtp_exit_scheduled |-> mtp_exit_scheduled,
                                     ret |-> USP_ERR_OK ], command_key, f),
              kExitAction_FactoryReset, "RemoteFactoryReset", command_key, f)
    /\ op' = "DeviceFactoryReset"

\* ------------------------------------------------------------------------
\* DEVICE_LOCAL_AGENT_ScheduleReboot statement by statement, called by the
\* handlers on the threads of Threads.  The function takes no lock, so the
\* statements of two calls interleave in any order.

\* The arguments the two handlers pass (lines 598 and 626)
HandlerArgs ==
    { [ exit_action |-> kExitAction_Reboot, cause |-> "RemoteReboot" ],
      [ exit_action |-> kExitAction_FactoryReset, cause |-> "RemoteFactoryReset" ] }

InCall(t) == calls[t].pc \notin {"idle", "done"}

\* The call record after a statement: a failed write returns its error, any
\* other statement falls through to the next one
Advance(c, statement, next, e) ==
    IF e # USP_ERR_OK THEN [c EXCEPT !.pc = "done", !.ret = e]
    ELSE [c EXCEPT !.pc = next, !.steps = Append(@, statement)]

\* A handler on thread t enters DEVICE_LOCAL_AGENT_ScheduleReboot
HandlerCalled(t) ==
    /\ pc = "running"
    /\ calls[t].pc = "idle"
    /\ \E a \in HandlerArgs, command_key \in CommandKeys :
          calls' = [ u \in Threads |->
                      IF u = t
                      THEN [ pc |-> "set_cause", exit_action |-> a.exit_action,
                             cause |-> a.cause, command_key |-> command_key,
                             request_instance |-> INVALID, ret |-> "NONE", steps |-> <<>>,
                             alone |-> \A v \in Threads \ {t} : ~InCall(v) ]
                      ELSE IF InCall(u) THEN [calls[u] EXCEPT !.alone = FALSE]
                      ELSE calls[u] ]
    /\ op' = "Call"
    /\ UNCHANGED <<db, software_version, pc, scheduled_exit_action, reboot_info,
                   dual_stack_prefer_ipv6, mtp_exit_scheduled, start, hist, prev, idvars, dual>>

\* lines 377-381
SetRebootCause(t) ==
    /\ calls[t].pc = "set_cause"
    /\ \E e \in {USP_ERR_OK, StoreErr("set_cause")} :
          /\ db' = DATA_MODEL_SetParameterValue(db, "cause", calls[t].cause, e)
          /\ calls' = [calls EXCEPT ![t] = Advance(@, "set_cause", "set_key", e)]
    /\ op' = "SetRebootCause"
    /\ UNCHANGED <<software_version, pc, scheduled_exit_action, reboot_info,
                   dual_stack_prefer_ipv6, mtp_exit_scheduled, start, hist, prev, idvars, dual>>

\* lines 384-388
SetCommandKey(t) ==
    /\ calls[t].pc = "set_key"
    /\ \E e \in {USP_ERR_OK, StoreErr("set_key")} :
          /\ db' = DATA_MODEL_SetParameterValue(db, "command_key", calls[t].command_key, e)
          /\ calls' = [calls EXCEPT ![t] = Advance(@, "set_key", "set_inst", e)]
    /\ op' = "SetCommandKey"
    /\ UNCHANGED <<software_version, pc, scheduled_exit_action, reboot_info,
                   dual_stack_prefer_ipv6, mtp_exit_scheduled, start, hist, prev, idvars, dual>>

\* lines 391-395
SetRequestInstance(t) ==
    /\ calls[t].pc = "set_inst"
    /\ \E e \in {USP_ERR_OK, StoreErr("set_inst")} :
          /\ db' = DM_ACCESS_SetInteger(db, "request_instance", calls[t].request_instance, e)
          /\ calls' = [calls EXCEPT ![t] = Advance(@, "set_inst", "set_action", e)]
    /\ op' = "SetRequestInstance"
    /\ UNCHANGED <<software_version, pc, scheduled_exit_action, reboot_info,
                   dual_stack_prefer_ipv6, mtp_exit_scheduled, start, hist, prev, idvars, dual>>

\* line 397
SetExitAction(t) ==
    /\ calls[t].pc = "set_action"
    /\ scheduled_exit_action' = calls[t].exit_action
    /\ calls' = [calls EXCEPT ![t] = Advance(@, "set_action", "signal", USP_ERR_OK)]
    /\ op' = "SetExitAction"
    /\ UNCHANGED <<db, software_version, pc, reboot_info, dual_stack_prefer_ipv6,
                   mtp_exit_scheduled, start, hist, prev, idvars, dual>>

\* lines 398-399
SignalExit(t) ==
    /\ calls[t].pc = "signal"
    /\ mtp_exit_scheduled' = TRUE
    /\ calls' = [calls EXCEPT ![t] = [Advance(@, "signal", "done", USP_ERR_OK)
                                         EXCEPT !.ret = USP_ERR_OK]]
    /\ op' = "SignalExit"
    /\ UNCHANGED <<db, software_version, pc, scheduled_exit_action, reboot_info,
                   dual_stack_prefer_ipv6, start, hist, prev, idvars, dual>>

\* A start-up in which no store call fails
StartWithoutFaults ==
    /\ AgentStart
    /\ start'.ret = USP_ERR_OK
    /\ start'.populate_fail = USP_ERR_OK

NextConcurrent ==
    \/ AgentInit \/ StartWithoutFaults \/ EnterMainLoop
    \/ \E t \in Threads : HandlerCalled(t)
    \/ \E t \in Threads : SetRebootCause(t)
    \/ \E t \in Threads : SetCommandKey(t)
    \/ \E t \in Threads : SetRequestInstance(t)
    \/ \E t \in Threads : SetExitAction(t)
    \/ \E t \in Threads : SignalExit(t)

SpecConcurrent == Init /\ [][NextConcurrent]_vars

NextCommands ==
    \/ AgentInit \/ AgentStart \/ EnterMainLoop \/ DeviceReboot \/ DeviceFactoryReset
    \/ Restart

SpecCommands == Init /\ [][NextCommands]_vars

\* ------------------------------------------------------------------------
\* The dual stack preference over the boots of a device
\* The data model calls NotifyChange_DualStackPreference with a value; the
\* function does not look at where the value comes from
NotifyChange ==
    /\ pc \in {"started", "running"}
    /\ \E value \in DualStackCandidates :
          /\ dual_stack_prefer_ipv6' = NotifyChange_DualStackPreference(value)
          /\ dual' = [ candidate |-> value, validate_ret |-> "NONE",
                       ret |-> NotifyChange_DualStackPreference_Return(value),
                       last_valid |-> dual.last_valid,
                       was |-> dual_stack_prefer_ipv6 ]
    /\ op' = "NotifyChange"
    /\ UNCHANGED <<db, software_version, pc, scheduled_exit_action, reboot_info,
                   mtp_exit_scheduled, start, hist, prev, idvars, calls>>

NextApply == AgentInit \/ AgentStart \/ EnterMainLoop \/ NotifyChange \/ Restart

SpecApply == Init /\ [][NextApply]_vars

NextDual == AgentInit \/ AgentStart \/ EnterMainLoop \/ SetDualStackPreference \/ Restart

SpecDual == Init /\ [][NextDual]_vars

\* ------------------------------------------------------------------------
\* The start-up of one process up to the resolution of its identity, on any
\* platform and with any values of the identity in the store
InitIdentity ==
    /\ db = DbDefaults
    /\ software_version = "1.0"
    /\ pc = "loaded"
    /\ scheduled_exit_action = kExitAction_Exit
    /\ reboot_info = ZeroRebootInfo
    /\ dual_stack_prefer_ipv6 = FALSE
    /\ mtp_exit_scheduled = FALSE
    /\ op = "Load"
    /\ start = NoStart
    /\ hist = NoHist
    /\ prev = NoPrev
    /\ agent_endpoint_id = ""
    /\ id_store \in IdStores
    /\ id_default = InitialIdDefaults
    /\ platform \in Platforms
    /\ ident = NoIdent
    /\ dual = NoDual
    /\ calls = NoCalls

NextIdentity == AgentInit \/ SetDefaults \/ ChangePersistedIdentity

SpecIdentity == InitIdentity /\ [][NextIdentity]_vars

\* ------------------------------------------------------------------------
\* The life of one process, from its start-up to the requests it serves
LifePlatforms ==
    { DefaultPlatform,
      [DefaultPlatform EXCEPT !.endpoint_cb =
          [ registered |-> TRUE, ret |-> USP_ERR_OK, value |-> "proto::vendor-ep" ]] }

InitLife ==
    /\ InitIdentity
    /\ platform \in LifePlatforms
    /\ id_store.oui = NULL
    /\ id_store.serial_number = NULL

\* The ScheduleReboot calls of this process: a remote reboot request, which
\* succeeds or fails at its first write
RemoteRebootCall ==
    [ some |-> TRUE, action |-> kExitAction_Reboot, cause |-> "RemoteReboot",
      command_key |-> "key123", request_instance |-> 1 ]

ScheduleRemoteReboot ==
    /\ ScheduleExit
    /\ hist'.ret = USP_ERR_OK => hist'.last_ok = RemoteRebootCall
    /\ hist'.ret # USP_ERR_OK => hist'.fail = StoreErr("set_cause")

NextLife ==
    \/ AgentInit \/ SetDefaults \/ AgentStart \/ EnterMainLoop \/ ScheduleRemoteReboot
    \/ SetDualStackPreference \/ ChangePersistedIdentity

SpecLife == InitLife /\ [][NextLife]_vars

TypeOK ==
    /\ db.cause \in RebootCauses
    /\ db.command_key \in CommandKeys
    /\ db.request_instance \in { IntToText(n) : n \in Instances }
    /\ db.last_software_version \in SoftwareVersions
    /\ pc \in {"loaded", "inited", "started", "running", "failed"}
    /\ scheduled_exit_action \in ExitActions

\* ------------------------------------------------------------------------
\* Shorthands for the claims
Snapshot(info) == <<info.cause, info.command_key, info.request_instance>>

Scheduled(c) == <<c.cause, c.command_key, c.request_instance>>

DefaultTriple == <<local_reboot_cause_str, "", INVALID>>

AfterStart == op = "Start"

InitializeOk == AfterStart /\ start.populate_ret = USP_ERR_OK

ExpectedExitAction(h) == IF h.last_ok.some THEN h.last_ok.action ELSE kExitAction_Exit

C2_DefaultsAfterInitialize ==
    InitializeOk =>
        /\ db.cause = local_reboot_cause_str
        /\ db.command_key = ""
        /\ db.request_instance = IntToText(INVALID)
        /\ db.last_software_version = software_version

\* C3: Initialize never returns success after one of the store calls it made
\* has failed.
C3_StoreFailureAborts ==
    (AfterStart /\ start.populate_failed) => start.populate_ret # USP_ERR_OK

\* C4: a ScheduleExit call in which a store write fails returns the error of
\* that write, leaves the exit action as it was (the action of the last
\* successful call, or Exit) and does not signal the shutdown mechanism.
C4_FailedScheduleExit ==
    [][ (op' = "ScheduleExit" /\ hist'.fail # USP_ERR_OK) =>
            /\ hist'.ret = hist'.fail
            /\ scheduled_exit_action' = scheduled_exit_action
            /\ scheduled_exit_action' = ExpectedExitAction(hist)
            /\ mtp_exit_scheduled' = mtp_exit_scheduled ]_vars

C4_Witness ==
    /\ op = "ScheduleExit"
    /\ hist.ret = StoreErr("set_inst")
    /\ hist.last_ok.some
    /\ hist.last_ok.action = kExitAction_Reboot
    /\ scheduled_exit_action = kExitAction_Reboot

\* C5: GetExitAction returns Exit before any successful ScheduleExit and
\* otherwise the action of the most recent ScheduleExit that returned success.
C5_LastWriteWins ==
    DEVICE_LOCAL_AGENT_GetExitAction = ExpectedExitAction(hist)

C5_Witness ==
    /\ op = "ScheduleExit"
    /\ hist.ret = USP_ERR_OK
    /\ hist.was = kExitAction_Reboot
    /\ hist.last_ok.action = kExitAction_FactoryReset
    /\ DEVICE_LOCAL_AGENT_GetExitAction = kExitAction_FactoryReset

\* C6: once a successful Initialize has reported the persisted cause, command
\* key and request instance, every later successful Initialize with no
\* ScheduleExit in between reports "LocalReboot", empty key, no instance.
C6_ReportedOnce ==
    (InitializeOk /\ prev.clean) => Snapshot(reboot_info) = DefaultTriple

\* C7: on the second of two consecutive boots with successful Initialize, no
\* ScheduleExit between them and the same software version, the record has
\* cause "LocalReboot", request instance -1 and isFirmwareUpdated = false.
C7_Idempotent ==
    (InitializeOk /\ prev.version = software_version) =>
        /\ reboot_info.cause = local_reboot_cause_str
        /\ reboot_info.request_instance = INVALID
        /\ reboot_info.is_firmware_updated = FALSE

\* C8: after a successful Initialize, isFirmwareUpdated is true exactly when
\* the last software version read from the store at this boot was non-empty
\* and differs from the current one; with no last version stored it is false
\* and the record's last software version is the current version.
C8_FirmwareUpdated ==
    [][ (op' = "Start" /\ start'.populate_ret = USP_ERR_OK) =>
            /\ reboot_info'.is_firmware_updated =
                  (db.last_software_version # "" /\ db.last_software_version # software_version)
            /\ reboot_info'.cur_software_version = software_version
            /\ db.last_software_version = "" =>
                  /\ reboot_info'.is_firmware_updated = FALSE
                  /\ reboot_info'.last_software_version = software_version ]_vars

C8_Witness ==
    /\ InitializeOk
    /\ reboot_info.is_firmware_updated
    /\ reboot_info.last_software_version = "1.0"
    /\ reboot_info.cur_software_version = "1.1"

\* C9 (as stated): once the exit action is Reboot or FactoryReset, no call
\* made to the running process brings it back to Exit.
C9_NeverBackToExit ==
    [][ (pc = "running" /\ pc' = "running" /\ scheduled_exit_action # kExitAction_Exit)
            => scheduled_exit_action' # kExitAction_Exit ]_vars

\* C9 (amended): the exit action of a process starts at Exit and changes only
\* inside a ScheduleExit call that returns success, which sets it to the
\* action of that call, Exit included.
C9_ChangesOnlyInScheduleExit ==
    [][ /\ op' = "Load" => scheduled_exit_action' = kExitAction_Exit
        /\ (op' # "Load" /\ scheduled_exit_action' # scheduled_exit_action) =>
              /\ op' = "ScheduleExit"
              /\ hist'.ret = USP_ERR_OK
              /\ scheduled_exit_action' = hist'.last_ok.action ]_vars

C9_Witness ==
    /\ op = "ScheduleExit"
    /\ hist.ret = USP_ERR_OK
    /\ hist.was = kExitAction_FactoryReset
    /\ scheduled_exit_action = kExitAction_Exit

\* C10: whenever Initialize fails, DEVICE_LOCAL_AGENT_Start returns an error.
C10_StartSurfacesFailure ==
    (AfterStart /\ start.populate_ret # USP_ERR_OK) => start.ret # USP_ERR_OK

\* ------------------------------------------------------------------------
\* The step of PopulateRebootInfo (1 cause, 2 command key, 3 request instance,
\* 4 software version) that a returned store error comes from
FailedStep(e) ==
    CASE e \in {StoreErr("get_cause"), StoreErr("set_cause")} -> 1
      [] e = StoreErr("get_key") -> 2
      [] e = StoreErr("get_inst") -> 3
      [] e \in {StoreErr("get_last"), StoreErr("get_cur"), StoreErr("set_last")} -> 4
      [] OTHER -> 0

\* C11: when Initialize fails at step k in 2..4, nothing is rolled back: the
\* rewrites the earlier steps have done are in the store (cause "LocalReboot";
\* command key empty and request instance -1 when the store calls before the
\* failing one all succeeded, and never anything but the old or the rewritten
\* value), and the slots of step k and of the later steps are as before the call.
C11_NoRollback ==
    [][ (op' = "Start" /\ FailedStep(start'.populate_ret) >= 2) =>
            LET k == FailedStep(start'.populate_ret)
                done == start'.populate_fail = start'.populate_ret
            IN  /\ db'.cause = local_reboot_cause_str
                /\ k >= 3 => db'.command_key \in {"", db.command_key}
                /\ k >= 4 => db'.request_instance \in {IntToText(INVALID), db.request_instance}
                /\ (k >= 3 /\ done) => db'.command_key = ""
                /\ (k >= 4 /\ done) => db'.request_instance = IntToText(INVALID)
                /\ k <= 2 => db'.command_key = db.command_key
                /\ k <= 3 => db'.request_instance = db.request_instance
                /\ db'.last_software_version = db.last_software_version ]_vars

C11_Witness ==
    /\ op = "Start"
    /\ start.populate_ret = StoreErr("get_inst")
    /\ start.populate_fail = StoreErr("get_inst")
    /\ reboot_info.cause = "RemoteReboot"
    /\ reboot_info.command_key = "key123"
    /\ db.cause = local_reboot_cause_str
    /\ db.command_key = ""
    /\ db.request_instance = "1"

\* ------------------------------------------------------------------------
\* Shorthands for the identity and dual stack preference claims
AfterSetDefaults == op = "SetDefaults"

AfterSetDual == op = "SetDualStackPreference"

ValidDualStackValues == {"IPv4", "IPv6"}

Primed == pc \in {"started", "running"}

\* C12: once start-up has primed the cache, the cached preference is true
\* exactly when the stored preference is "IPv6", and the stored preference is
\* the value of the last set that passed validation; a set whose value fails
\* validation changes neither the cache nor the stored preference.
C12_CacheFollowsPersisted ==
    [][ /\ Primed' =>
              /\ DEVICE_LOCAL_AGENT_GetDualStackPreference' = (db'.dual_stack_preference = "IPv6")
              /\ db'.dual_stack_preference = dual'.last_valid
        /\ (AfterSetDual' /\ dual'.candidate \notin ValidDualStackValues) =>
              /\ dual'.ret # USP_ERR_OK
              /\ dual_stack_prefer_ipv6' = dual_stack_prefer_ipv6
              /\ db'.dual_stack_preference = db.dual_stack_preference ]_vars

C12_Witness ==
    /\ AfterSetDual
    /\ dual.candidate = "Both"
    /\ dual.last_valid = "IPv6"
    /\ db.dual_stack_preference = "IPv6"
    /\ DEVICE_LOCAL_AGENT_GetDualStackPreference = TRUE

\* C13: the validator returns USP_ERR_OK exactly for "IPv4" and "IPv6" and
\* USP_ERR_INVALID_VALUE for every other string ("ipv4", "" and "Both"
\* included); a rejected value leaves the store and every static as they were.
C13_ValidateExact ==
    [][ AfterSetDual' =>
            /\ dual'.validate_ret =
                  IF dual'.candidate \in ValidDualStackValues
                  THEN USP_ERR_OK ELSE USP_ERR_INVALID_VALUE
            /\ dual'.validate_ret # USP_ERR_OK =>
                  /\ dual'.ret = USP_ERR_INVALID_VALUE
                  /\ UNCHANGED <<db, dual_stack_prefer_ipv6, scheduled_exit_action,
                                 reboot_info, agent_endpoint_id, id_store, id_default>> ]_vars

C13_Witness ==
    /\ AfterSetDual
    /\ dual.candidate = "ipv4"
    /\ dual.validate_ret = USP_ERR_INVALID_VALUE
    /\ dual.ret = USP_ERR_INVALID_VALUE

\* C14: when DEVICE_LOCAL_AGENT_SetDefaults returns success, the endpoint_id
\* it has cached, which the accessor returns, is the value the store holds for
\* EndpointID if it holds one, whatever default was computed from OUI, serial
\* number and vendor hook, and the computed default if the store holds none.
C14_PersistedOverride ==
    (AfterSetDefaults /\ ident.ret = USP_ERR_OK) =>
        DEVICE_LOCAL_AGENT_GetEndpointID =
            IF id_store.endpoint_id # NULL THEN id_store.endpoint_id
            ELSE ident.default_endpoint_id

C14_Witness ==
    /\ AfterSetDefaults
    /\ ident.ret = USP_ERR_OK
    /\ id_store.endpoint_id = "os::A1B2C3-pinned"
    /\ ident.default_endpoint_id = "proto::vendor-ep"
    /\ DEVICE_LOCAL_AGENT_GetEndpointID = "os::A1B2C3-pinned"

\* C15: the default endpoint_id is "os::" + OUI + "-" + serial number when no
\* vendor hook is registered and the serial number is not empty; with a hook
\* registered it is the hook's value, and a failing hook makes the resolution
\* fail with USP_ERR_INTERNAL_ERROR.
C15_DefaultEndpointID ==
    (AfterSetDefaults /\ ident.endpoint_ret # "NONE") =>
        LET cb == platform.endpoint_cb
        IN  /\ (~cb.registered /\ ident.serial_number # "") =>
                  /\ ident.endpoint_ret = USP_ERR_OK
                  /\ ident.default_endpoint_id =
                        "os::" \o ident.oui \o "-" \o ident.serial_number
                  /\ Len(ident.default_endpoint_id) =
                        Len(ident.oui) + Len(ident.serial_number) + 5
            /\ (cb.registered /\ cb.ret = USP_ERR_OK) =>
                  /\ ident.endpoint_ret = USP_ERR_OK
                  /\ ident.default_endpoint_id = cb.value
            /\ (cb.registered /\ cb.ret # USP_ERR_OK) =>
                  /\ ident.endpoint_ret = USP_ERR_INTERNAL_ERROR
                  /\ ident.ret = USP_ERR_INTERNAL_ERROR
                  /\ DEVICE_LOCAL_AGENT_GetEndpointID = ""

C15_Witness ==
    /\ AfterSetDefaults
    /\ ~platform.endpoint_cb.registered
    /\ ident.oui = "F0E1D2"
    /\ ident.serial_number = "001A2B3C4D5E"
    /\ ident.default_endpoint_id = "os::F0E1D2-001A2B3C4D5E"

\* C16: whenever DEVICE_LOCAL_AGENT_SetDefaults has returned success, the
\* cached endpoint_id is not the empty string.
C16_NonEmptyEndpointID ==
    ident.ret = USP_ERR_OK => DEVICE_LOCAL_AGENT_GetEndpointID # ""

\* C17: once DEVICE_LOCAL_AGENT_SetDefaults has cached the endpoint_id, no
\* later step of the process (Start, ScheduleReboot, a set of the dual stack
\* preference, a change of the stored EndpointID, OUI or serial number)
\* changes what the accessor returns.
C17_EndpointIdStable ==
    [][ (ident.ret = USP_ERR_OK /\ op' \notin {"Load", "SetDefaults"}) =>
            DEVICE_LOCAL_AGENT_GetEndpointID' = DEVICE_LOCAL_AGENT_GetEndpointID ]_vars

C17_Witness ==
    /\ op = "ChangePersistedIdentity"
    /\ pc = "running"
    /\ hist.last_ok.some
    /\ dual.last_valid = "IPv6"
    /\ id_store.endpoint_id = "os::A1B2C3-pinned"
    /\ DEVICE_LOCAL_AGENT_GetEndpointID = "os::012345-AABBCC001122"

C19_SerialNumberPrecedence ==
    (AfterSetDefaults /\ ident.serial_ret # "NONE") =>
        LET cb == platform.serial_cb
            override == platform.board_serial # NULL /\ platform.board_serial # ""
        IN  /\ (cb.registered /\ cb.ret = USP_ERR_OK) =>
                  /\ ident.serial_ret = USP_ERR_OK
                  /\ ident.default_serial = cb.value
            /\ (cb.registered /\ cb.ret # USP_ERR_OK) =>
                  /\ ident.serial_ret = USP_ERR_INTERNAL_ERROR
                  /\ ident.ret = USP_ERR_INTERNAL_ERROR
            /\ (~cb.registered /\ override) =>
                  /\ ident.serial_ret = USP_ERR_OK
                  /\ ident.default_serial = platform.board_serial
            /\ (~cb.registered /\ ~override /\ platform.mac.ret = USP_ERR_OK) =>
                  /\ ident.serial_ret = USP_ERR_OK
                  /\ Len(ident.default_serial) = 2 * MAC_ADDR_LEN
            /\ (~cb.registered /\ ~override /\ platform.mac.ret # USP_ERR_OK) =>
                  /\ ident.serial_ret = platform.mac.ret
                  /\ ident.serial_ret # USP_ERR_INTERNAL_ERROR
                  /\ ident.ret = platform.mac.ret

C19_Witness ==
    /\ AfterSetDefaults
    /\ platform.serial_cb.registered
    /\ platform.serial_cb.ret # USP_ERR_OK
    /\ platform.board_serial = "SN42"
    /\ platform.mac.ret = USP_ERR_OK
    /\ ident.serial_ret = USP_ERR_INTERNAL_ERROR
    /\ ident.ret = USP_ERR_INTERNAL_ERROR

\* The serial number expected for each WAN MAC address of the model
SerialOfMac(addr) ==
    CASE addr = <<170, 187, 204, 0, 17, 34>> -> "AABBCC001122"
      [] addr = <<0, 26, 43, 60, 77, 94>> -> "001A2B3C4D5E"
      [] OTHER -> "?"

\* C20: with no vendor hook and no environment override, the default serial
\* number is the 12 hexadecimal digits of the 6 octets of the WAN MAC address,
\* high nibble then low nibble of each octet (AA:BB:CC:00:11:22 gives
\* "AABBCC001122"), the same for the same address.
C20_SerialFromMac ==
    ( /\ AfterSetDefaults
      /\ ident.serial_ret = USP_ERR_OK
      /\ ~platform.serial_cb.registered
      /\ platform.board_serial \in {NULL, ""} ) =>
        /\ ident.default_serial = SerialOfMac(platform.mac.addr)
        /\ Len(ident.default_serial) = 12

C20_Witness ==
    /\ AfterSetDefaults
    /\ ~platform.serial_cb.registered
    /\ platform.board_serial = ""
    /\ platform.mac.addr = <<0, 26, 43, 60, 77, 94>>
    /\ ident.default_serial = "001A2B3C4D5E"
    /\ ident.serial_number = "001A2B3C4D5E"

\* ------------------------------------------------------------------------
\* C21: a successful Device.Reboot() with command key k leaves the exit action
\* Reboot and the stored cause "RemoteReboot", command key k, request instance
\* -1; a successful Device.FactoryReset() leaves FactoryReset and
\* "RemoteFactoryReset", k, -1; on failure each returns the error of
\* DEVICE_LOCAL_AGENT_ScheduleReboot, the code of the write that failed.
C21_HandlersRouteThroughScheduleExit ==
    [][ LET c == calls'[1]
            stored == <<db'.cause, db'.command_key, db'.request_instance>>
        IN  /\ op' = "DeviceReboot" =>
                  IF c.ret = USP_ERR_OK
                  THEN /\ DEVICE_LOCAL_AGENT_GetExitAction' = kExitAction_Reboot
                       /\ stored = <<"RemoteReboot", c.command_key, "-1">>
                  ELSE c.ret = hist'.fail
            /\ op' = "DeviceFactoryReset" =>
                  IF c.ret = USP_ERR_OK
                  THEN /\ DEVICE_LOCAL_AGENT_GetExitAction' = kExitAction_FactoryReset
                       /\ stored = <<"RemoteFactoryReset", c.command_key, "-1">>
                  ELSE c.ret = hist'.fail ]_vars

C21_Witness ==
    /\ op = "DeviceFactoryReset"
    /\ calls[1].ret = USP_ERR_OK
    /\ calls[1].command_key = "key123"
    /\ hist.was = kExitAction_Reboot
    /\ DEVICE_LOCAL_AGENT_GetExitAction = kExitAction_FactoryReset
    /\ db.cause = "RemoteFactoryReset"
    /\ db.command_key = "key123"

\* C25: DEVICE_LOCAL_AGENT_ScheduleReboot does not roll back: when its second
\* or third write fails, the slots written before it hold the call's values
\* (the stored cause is the requested cause), the failing and the later slots
\* are as before, and the exit action is unchanged; the next successful
\* Initialize reports the stored cause, whatever call left it there.
C25_PartialPersistence ==
    [][ /\ ( /\ op' \in {"DeviceReboot", "DeviceFactoryReset"}
             /\ hist'.fail \in {StoreErr("set_key"), StoreErr("set_inst")} ) =>
               LET c == calls'[1]
               IN  /\ c.ret = hist'.fail
                   /\ db'.cause = c.cause
                   /\ db'.command_key =
                         IF hist'.fail = StoreErr("set_inst") THEN c.command_key
                         ELSE db.command_key
                   /\ db'.request_instance = db.request_instance
                   /\ DEVICE_LOCAL_AGENT_GetExitAction' = DEVICE_LOCAL_AGENT_GetExitAction
                   /\ mtp_exit_scheduled' = mtp_exit_scheduled
        /\ (op' = "Start" /\ start'.populate_ret = USP_ERR_OK) =>
               reboot_info'.cause = db.cause ]_vars

\* The last successful call of the previous process was a Reboot; a
\* FactoryReset call after it failed after its first write; this boot reports
\* the cause of the failed call
C25_Witness ==
    /\ InitializeOk
    /\ prev.last_ok.some
    /\ prev.last_ok.action = kExitAction_Reboot
    /\ prev.dirty
    /\ reboot_info.cause = "RemoteFactoryReset"

\* C26: is_firmware_updated is true after a start-up only if
\* PopulateRebootInfo returned USP_ERR_OK and the stored last version is the
\* current one; when the rewrite of the last version fails, PopulateRebootInfo
\* returns that error, is_firmware_updated is false and the stored last
\* version is as before; and when the previous boot failed that rewrite for
\* a version other than the stored one, a successful PopulateRebootInfo with
\* the same current version reports is_firmware_updated.
C26_NoLostFirmwareUpdate ==
    [][ op' = "Start" =>
          /\ reboot_info'.is_firmware_updated =>
                /\ start'.populate_ret = USP_ERR_OK
                /\ db'.last_software_version = software_version
          /\ start'.populate_ret = StoreErr("set_last") =>
                /\ ~reboot_info'.is_firmware_updated
                /\ db'.last_software_version = db.last_software_version
          /\ (start'.populate_ret = USP_ERR_OK /\ prev.pending = software_version) =>
                reboot_info'.is_firmware_updated ]_vars

\* The previous boot failed to rewrite the last version; this boot, with the
\* same current version, reports the update
C26_Witness ==
    /\ InitializeOk
    /\ prev.pending = software_version
    /\ reboot_info.is_firmware_updated
    /\ reboot_info.last_software_version = "1.0"
    /\ reboot_info.cur_software_version = "1.1"

\* C27: when no endpoint_id hook is registered, the default endpoint_id that
\* DEVICE_LOCAL_AGENT_SetDefaults synthesizes is "os::" + OUI + "-" + serial
\* number, where the OUI is the stored ManufacturerOUI if the store has one
\* and the environment or compiled-in default otherwise, and the serial number
\* is the stored SerialNumber if the store has one and the hook, environment
\* or MAC default otherwise.
C27_IdentityCascade ==
    (AfterSetDefaults /\ ident.endpoint_ret = USP_ERR_OK /\ ~platform.endpoint_cb.registered) =>
        LET default_oui == IF platform.board_oui \notin {NULL, ""}
                           THEN platform.board_oui ELSE VENDOR_OUI
            oui == IF id_store.oui # NULL THEN id_store.oui ELSE default_oui
            serial_number == IF id_store.serial_number # NULL THEN id_store.serial_number
                             ELSE ident.default_serial
        IN  ident.default_endpoint_id = "os::" \o oui \o "-" \o serial_number

\* Stored OUI and serial number replace the environment OUI and the MAC serial
C27_Witness ==
    /\ AfterSetDefaults
    /\ ident.ret = USP_ERR_OK
    /\ ~platform.endpoint_cb.registered
    /\ platform.board_oui = "F0E1D2"
    /\ ident.default_serial = "001A2B3C4D5E"
    /\ id_store = [ oui |-> "A1B2C3", serial_number |-> "PSN-9", endpoint_id |-> NULL ]
    /\ ident.default_endpoint_id = "os::A1B2C3-PSN-9"
    /\ DEVICE_LOCAL_AGENT_GetEndpointID = "os::A1B2C3-PSN-9"

\* C23: every call of NotifyChange_DualStackPreference returns USP_ERR_OK and
\* leaves the cached preference true if the value is "IPv6" and false for any
\* other value, whatever the cached preference was before the call.
C23_ApplyTotal ==
    [][ op' = "NotifyChange" =>
          /\ dual'.was = dual_stack_prefer_ipv6
          /\ DEVICE_LOCAL_AGENT_GetDualStackPreference' = (dual'.candidate = "IPv6")
          /\ dual'.ret = USP_ERR_OK ]_vars

\* A value that is neither "IPv4" nor "IPv6" arrives while IPv6 is preferred
C23_Witness ==
    /\ op = "NotifyChange"
    /\ dual.candidate = "Both"
    /\ dual.was
    /\ dual.ret = USP_ERR_OK
    /\ ~DEVICE_LOCAL_AGENT_GetDualStackPreference

\* C22: in every step in which a call of DEVICE_LOCAL_AGENT_ScheduleReboot
\* signals the exit, the call has written the cause, the command key and the
\* request instance with success, in that order, and then the exit action,
\* and the stored triple and the exit action are the values of that call.
C22_SignalAfterPersist ==
    [][ \A t \in Threads :
          (calls[t].pc = "signal" /\ calls'[t].pc = "done") =>
              /\ calls[t].steps = SubSeq(CallStatements, 1, 4)
              /\ db.cause = calls[t].cause
              /\ db.command_key = calls[t].command_key
              /\ db.request_instance = IntToText(calls[t].request_instance)
              /\ DEVICE_LOCAL_AGENT_GetExitAction = calls[t].exit_action ]_vars

\* The order of the statements alone: a call that signals has written the
\* three slots and the exit action before, in program order
ScheduleReboot_StatementOrder ==
    [][ \A t \in Threads :
          (calls[t].pc = "signal" /\ calls'[t].pc = "done") =>
              /\ calls[t].steps = SubSeq(CallStatements, 1, 4)
              /\ calls[t].alone =>
                    /\ db.cause = calls[t].cause
                    /\ db.command_key = calls[t].command_key
                    /\ db.request_instance = IntToText(calls[t].request_instance)
                    /\ DEVICE_LOCAL_AGENT_GetExitAction = calls[t].exit_action ]_vars

\* C24: when the calls of both threads have returned USP_ERR_OK and differ in
\* (exit action, cause), the exit action and the stored cause are those of
\* one and the same call.
C24_ActionMatchesCause ==
    ( /\ \A t \in Threads : calls[t].pc = "done" /\ calls[t].ret = USP_ERR_OK
      /\ <<calls[1].exit_action, calls[1].cause>> # <<calls[2].exit_action, calls[2].cause>> )
    => \E t \in Threads :
          /\ DEVICE_LOCAL_AGENT_GetExitAction = calls[t].exit_action
          /\ db.cause = calls[t].cause

====
